---- MODULE Spec2Model ----
(***************************************************************************)
(* Model of the pull-request review agent (src/agent.ts).                   *)
(*                                                                         *)
(* A text is a sequence of tokens; every token is a string and stands for   *)
(* its characters, so character offsets (String.indexOf, String.slice, the  *)
(* "+ marker.length" arithmetic) are computed from the token widths.        *)
(* The XML parser (xml2js.parseStringPromise, strict sax) is modelled on    *)
(* the token sequence; property reads on its result follow JavaScript:      *)
(* reading a property of undefined or null throws a TypeError.              *)
(***************************************************************************)
EXTENDS Integers, Sequences, FiniteSets, TLC

\* ------------------------------------------------------------------
\* Bounds of the model
\* ------------------------------------------------------------------

\* longest file list a pull request of the model has
MaxFiles == 2

\* ------------------------------------------------------------------
\* Texts: tokens, character offsets, indexOf, slice
\* ------------------------------------------------------------------

\* element names of the review block, of the summary block (part_000) and
\* one name that belongs to neither
TagNames ==
  {"review", "summary", "fileAnalyses", "file", "path", "analysis",
   "suggestedComments", "comment", "line", "body", "overallSuggestions",
   "suggestion", "response", "overview", "files", "item"}

Open(n) == "<" \o n \o ">"

Close(n) == "</" \o n \o ">"

OpenTags == {Open(n) : n \in TagNames}

CloseTags == {Close(n) : n \in TagNames}

IsOpen(t) == t \in OpenTags

IsClose(t) == t \in CloseTags

NameOf(t) == CHOOSE n \in TagNames : t = Open(n) \/ t = Close(n)

\* what is left of a tag, and of character data, when a slice cuts through it
CutTag == "<~"

CutText == "~"

WhiteTokens ==
  {"", "\n", "\n  ", "\n    ", "\n      ", "\n        ", "\n          "}

IsWhite(t) == t \in WhiteTokens

RECURSIVE RangeWidth(_, _, _)
\* number of characters of the tokens lo..hi of text
RangeWidth(text, lo, hi) ==
  IF lo > hi THEN 0
  ELSE IF lo = hi THEN Len(text[lo])
  ELSE LET mid == (lo + hi) \div 2
       IN RangeWidth(text, lo, mid) + RangeWidth(text, mid + 1, hi)

\* number of characters of the first k tokens of text
SumWidth(text, k) == RangeWidth(text, 1, k)

TextLength(text) == SumWidth(text, Len(text))

\* String.prototype.indexOf: offset of the first occurrence, or -1
IndexOf(text, marker) ==
  IF \E i \in 1..Len(text) : text[i] = marker
  THEN LET i == CHOOSE j \in 1..Len(text) :
                  /\ text[j] = marker
                  /\ \A k \in 1..(j - 1) : text[k] # marker
       IN SumWidth(text, i - 1)
  ELSE -1

Max(a, b) == IF a >= b THEN a ELSE b

Min(a, b) == IF a <= b THEN a ELSE b

\* the relative-index rule of String.prototype.slice
SliceIndex(k, len) == IF k < 0 THEN Max(len + k, 0) ELSE Min(k, len)

\* what the characters [from, to) keep of token i of text: nothing (""),
\* the token, or what is left of a token that is cut through
SlicePiece(text, i, from, to) ==
  LET a == SumWidth(text, i - 1)
      b == a + Len(text[i])
  IN IF b <= from \/ a >= to \/ a = b THEN ""
     ELSE IF a >= from /\ b <= to THEN text[i]
     ELSE IF IsOpen(text[i]) \/ IsClose(text[i]) \/ text[i] = CutTag THEN CutTag
     ELSE CutText

\* String.prototype.slice(start, end)
Slice(text, start, end) ==
  LET len == TextLength(text)
      from == SliceIndex(start, len)
      to == SliceIndex(end, len)
  IN IF from >= to THEN <<>>
     ELSE SelectSeq([i \in 1..Len(text) |-> SlicePiece(text, i, from, to)],
                    LAMBDA t : t # "")

\* ------------------------------------------------------------------
\* xml2js.parseStringPromise
\* ------------------------------------------------------------------

\* number of elements open after token i
Depth(toks, i) ==
  Cardinality({j \in 1..i : IsOpen(toks[j])})
  - Cardinality({j \in 1..i : IsClose(toks[j])})

\* the closing tag that ends the element opened at token i, 0 if none;
\* depth[j] is the number of elements open after token j
MatchOf(toks, depth, i) ==
  LET closers == {j \in (i + 1)..Len(toks) :
                    IsClose(toks[j]) /\ depth[j] = depth[i] - 1}
  IN IF closers = {} THEN 0
     ELSE CHOOSE j \in closers : \A k \in closers : j <= k

\* the array with the elements of f, each computed once
Array(f) == f \o <<>>

\* one pass over the tokens: depths, and the closing tag of each opening tag
Scan(toks) ==
  LET depth == Array([i \in 1..Len(toks) |-> Depth(toks, i)])
  IN [toks |-> toks,
      depth |-> depth,
      match |-> Array([i \in 1..Len(toks) |->
                   IF IsOpen(toks[i]) THEN MatchOf(toks, depth, i) ELSE 0])]

\* strict mode on the tokens s..m: no cut tag, every opening tag is closed
\* by a tag of its name, every closing tag closes an element opened in s..m
WellNested(sc, s, m) ==
  /\ \A i \in s..m : sc.toks[i] # CutTag
  /\ \A i \in s..m :
       IsOpen(sc.toks[i]) =>
         /\ sc.match[i] \in (i + 1)..m
         /\ NameOf(sc.toks[sc.match[i]]) = NameOf(sc.toks[i])
  /\ \A j \in s..m :
       IsClose(sc.toks[j]) => \E i \in s..(j - 1) : sc.match[i] = j

\* the positions lo..hi that satisfy Keep, in order
Positions(lo, hi, Keep(_)) ==
  SelectSeq([k \in 1..Max(hi - lo + 1, 0) |-> lo + k - 1], Keep)

RECURSIVE Concat(_)
Concat(strings) ==
  IF Len(strings) = 0 THEN "" ELSE strings[1] \o Concat(Tail(strings))

RECURSIVE Build(_, _)
\* the element opened at token i of well-nested tokens: its name, its own
\* character data and its child elements in document order
Build(sc, i) ==
  LET own == Positions(i + 1, sc.match[i] - 1,
               LAMBDA k : /\ ~IsOpen(sc.toks[k]) /\ ~IsClose(sc.toks[k])
                          /\ sc.depth[k] = sc.depth[i])
      sub == Positions(i + 1, sc.match[i] - 1,
               LAMBDA k : IsOpen(sc.toks[k]) /\ sc.depth[k] = sc.depth[i] + 1)
  IN [name |-> NameOf(sc.toks[i]),
      text |-> Concat([k \in 1..Len(own) |-> sc.toks[own[k]]]),
      kids |-> Array([k \in 1..Len(sub) |-> Build(sc, sub[k])])]

\* the first token at or after i that is not white space (Len + 1 if none)
FirstNonWhite(toks, i) ==
  IF \E j \in i..Len(toks) : ~IsWhite(toks[j])
  THEN CHOOSE j \in i..Len(toks) :
         /\ ~IsWhite(toks[j])
         /\ \A k \in i..(j - 1) : IsWhite(toks[k])
  ELSE Len(toks) + 1

\* the parse of the tokens scanned in sc, which start at token s
ParseScanned(sc, s) ==
  IF ~IsOpen(sc.toks[s]) \/ sc.match[s] = 0
  THEN [kind |-> "error", root |-> <<>>]
  ELSE IF /\ WellNested(sc, s, sc.match[s])
          /\ FirstNonWhite(sc.toks, sc.match[s] + 1) > Len(sc.toks)
  THEN [kind |-> "ok", root |-> Build(sc, s)]
  ELSE [kind |-> "error", root |-> <<>>]

\* parseStringPromise(xml): "null" for a blank string, "error" (the promise
\* rejects) for text that is not one well-formed element, else the root
parseStringPromise(toks) ==
  IF FirstNonWhite(toks, 1) > Len(toks) THEN [kind |-> "null", root |-> <<>>]
  ELSE ParseScanned(Scan(toks), FirstNonWhite(toks, 1))

\* ------------------------------------------------------------------
\* JavaScript values read from the parse result
\* ------------------------------------------------------------------

\* node.<key> on an xml2js result: the array of the child elements of that
\* name; <<>> stands for undefined (a string has no such property, and
\* xml2js never makes an empty array)
Prop(node, key) ==
  IF node.kids = <<>> THEN <<>>
  ELSE SelectSeq(node.kids, LAMBDA c : c.name = key)

\* the value xml2js gives an element: its character data when it has no
\* child element, else an object
ValueOf(node) ==
  IF node.kids = <<>> THEN [t |-> "str", s |-> node.text]
  ELSE [t |-> "obj", s |-> ""]

\* what a template literal prints for a value
TemplateString(v) == IF v.t = "str" THEN v.s ELSE "[object Object]"

NaN == [t |-> "nan", n |-> 0]

Num(k) == [t |-> "num", n |-> k]

\* parseInt on the line texts of the model: the leading integer, else NaN
parseInt(v) ==
  IF v.t # "str" THEN NaN
  ELSE CASE v.s = "12" -> Num(12)
         [] v.s = "7" -> Num(7)
         [] v.s = "7px" -> Num(7)
         [] v.s = "0" -> Num(0)
         [] v.s = "-3" -> Num(0 - 3)
         [] OTHER -> NaN

\* ------------------------------------------------------------------
\* analyzeCode: extraction and conversion to CodeAnalysis
\* ------------------------------------------------------------------

\* the opening marker of the summary block of the earlier revision
ResponseOpenMarker == Open("response")

OpenMarker == Open("review")

CloseMarker == Close("review")

\* the span handed to the parser
ExtractXml(text) ==
  LET xmlStart == IndexOf(text, OpenMarker)
      xmlEnd == IndexOf(text, CloseMarker) + Len(CloseMarker)
  IN Slice(text, xmlStart, xmlEnd)

\* comment.line[0] or comment.body[0] read from undefined
CommentThrows(c) == Prop(c, "line") = <<>> \/ Prop(c, "body") = <<>>

CommentOf(c) ==
  [line |-> parseInt(ValueOf(Prop(c, "line")[1])),
   body |-> ValueOf(Prop(c, "body")[1])]

\* a TypeError inside the callback of fileAnalyses[0].file.map
FileThrows(f) ==
  \/ Prop(f, "path") = <<>>
  \/ Prop(f, "analysis") = <<>>
  \/ Prop(f, "suggestedComments") = <<>>
  \/ Prop(Prop(f, "suggestedComments")[1], "comment") = <<>>
  \/ \E i \in 1..Len(Prop(Prop(f, "suggestedComments")[1], "comment")) :
       CommentThrows(Prop(Prop(f, "suggestedComments")[1], "comment")[i])

FileOf(f) ==
  LET cs == Prop(Prop(f, "suggestedComments")[1], "comment")
  IN [path |-> ValueOf(Prop(f, "path")[1]),
      analysis |-> ValueOf(Prop(f, "analysis")[1]),
      suggestedComments |-> [i \in 1..Len(cs) |-> CommentOf(cs[i])]]

\* the conversion of the parse result throws a TypeError
ConvertThrows(parsed) ==
  \/ parsed.kind = "null"
  \/ parsed.root.name # "review"
  \/ Prop(parsed.root, "summary") = <<>>
  \/ Prop(parsed.root, "fileAnalyses") = <<>>
  \/ Prop(Prop(parsed.root, "fileAnalyses")[1], "file") = <<>>
  \/ \E i \in 1..Len(Prop(Prop(parsed.root, "fileAnalyses")[1], "file")) :
       FileThrows(Prop(Prop(parsed.root, "fileAnalyses")[1], "file")[i])
  \/ Prop(parsed.root, "overallSuggestions") = <<>>

\* the CodeAnalysis object; overallSuggestions is undefined when the element
\* holds no suggestion element
Convert(parsed) ==
  LET fs == Prop(Prop(parsed.root, "fileAnalyses")[1], "file")
      sg == Prop(Prop(parsed.root, "overallSuggestions")[1], "suggestion")
  IN [summary |-> ValueOf(Prop(parsed.root, "summary")[1]),
      fileAnalyses |-> [i \in 1..Len(fs) |-> FileOf(fs[i])],
      overallSuggestions |->
        [defined |-> sg # <<>>,
         items |-> [i \in 1..Len(sg) |-> ValueOf(sg[i])]]]

NoAnalysis ==
  [summary |-> [t |-> "str", s |-> ""],
   fileAnalyses |-> <<>>,
   overallSuggestions |-> [defined |-> FALSE, items |-> <<>>]]

\* what the part of analyzeCode after the parse does: throw or return
AnalyzeResult(parsed) ==
  IF parsed.kind = "error" THEN [threw |-> TRUE, analysis |-> NoAnalysis]
  ELSE IF ConvertThrows(parsed) THEN [threw |-> TRUE, analysis |-> NoAnalysis]
  ELSE [threw |-> FALSE, analysis |-> Convert(parsed)]

\* ------------------------------------------------------------------
\* submitReview: the arguments of octokit.pulls.createReview
\* ------------------------------------------------------------------

RECURSIVE Join(_, _)
\* Array.prototype.join on pieces: parts is a sequence of piece sequences
Join(parts, sep) ==
  IF parts = <<>> THEN <<>>
  ELSE IF Len(parts) = 1 THEN parts[1]
  ELSE parts[1] \o <<sep>> \o Join(Tail(parts), sep)

RECURSIVE FlatMap(_)
FlatMap(lists) ==
  IF lists = <<>> THEN <<>> ELSE lists[1] \o FlatMap(Tail(lists))

\* comments that all carry the path of the first file entry
ReviewCommentsFirstPath(analysis) ==
  FlatMap([i \in 1..Len(analysis.fileAnalyses) |->
     [j \in 1..Len(analysis.fileAnalyses[i].suggestedComments) |->
        [path |-> analysis.fileAnalyses[1].path,
         line |-> analysis.fileAnalyses[i].suggestedComments[j].line,
         body |-> analysis.fileAnalyses[i].suggestedComments[j].body]]])

\* the comments argument
ReviewComments(analysis) ==
  FlatMap([i \in 1..Len(analysis.fileAnalyses) |->
     [j \in 1..Len(analysis.fileAnalyses[i].suggestedComments) |->
        [path |-> analysis.fileAnalyses[i].path,
         line |-> analysis.fileAnalyses[i].suggestedComments[j].line,
         body |-> analysis.fileAnalyses[i].suggestedComments[j].body]]])

BodyHeader == "# Code Review Summary\n\n"

SuggestionsHeader == "\n\n## Overall Suggestions\n"

BodyFooter == "\n\n---\n*Generated by PR Review Bot*"

\* a section with the analysis above its path
FileSectionAnalysisFirst(file) ==
  <<"\n## ", TemplateString(file.analysis), "\n", TemplateString(file.path), "\n">>

FileSection(file) ==
  <<"\n## ", TemplateString(file.path), "\n", TemplateString(file.analysis), "\n">>

SuggestionLine(suggestion) == <<"- ", TemplateString(suggestion)>>

\* the body argument, as the sequence of its pieces
ReviewBody(analysis) ==
  <<BodyHeader, TemplateString(analysis.summary), "\n\n">>
  \o Join([i \in 1..Len(analysis.fileAnalyses) |->
             FileSection(analysis.fileAnalyses[i])], "\n")
  \o <<SuggestionsHeader>>
  \o Join([i \in 1..Len(analysis.overallSuggestions.items) |->
             SuggestionLine(analysis.overallSuggestions.items[i])], "\n")
  \o <<BodyFooter>>

\* analysis.overallSuggestions.map on undefined
SubmitThrows(analysis) == ~analysis.overallSuggestions.defined

\* ------------------------------------------------------------------
\* The environment: webhook deliveries, GitHub data, model replies
\* ------------------------------------------------------------------

AllReqs == {"r1", "r2"}

EventTypes == {"pull_request", "push", "issues"}

PayloadActions == {"opened", "closed"}

FileNames == {"a.ts", "b.ts", "c.ts"}

\* one entry of the data of octokit.pulls.listFiles
FileEntry(name) ==
  [filename |-> name,
   status |-> IF name = "b.ts" THEN "removed" ELSE "modified",
   patch |-> IF name = "b.ts" THEN "" ELSE "-x\n+y"]

\* the file lists a pull request can have: distinct paths, in any order
FileLists ==
  {fl \in UNION {[1..n -> FileNames] : n \in 0..MaxFiles} :
     \A i, j \in 1..Len(fl) : i # j => fl[i] # fl[j]}

\* the decoded content of a file at the head commit; c.ts is an empty file
ContentOf(name) == IF name = "c.ts" THEN "" ELSE "x=1"

Undefined == "undefined"

CommitLists == {<<>>, <<"fix: bug">>}

Elem(n, content) == <<Open(n)>> \o content \o <<Close(n)>>

CommentXml(l, b) ==
  Elem("comment", Elem("line", <<l>>) \o Elem("body", <<b>>))

FileXml(p, a, cs) ==
  Elem("file", Elem("path", <<p>>) \o Elem("analysis", <<a>>)
               \o Elem("suggestedComments", cs))

SummaryXml == Elem("summary", <<"S">>)

SuggestionsXml == Elem("overallSuggestions", Elem("suggestion", <<"X">>))

\* a block of the shape the prompt asks for: one file, one comment
OneFileBlock(p, l) ==
  Elem("review",
       SummaryXml
       \o Elem("fileAnalyses", FileXml(p, "A", CommentXml(l, "B")))
       \o SuggestionsXml)

\* two files, three comments, two suggestions, white space between elements
TwoFileBlock ==
  Elem("review",
       <<"\n  ">> \o SummaryXml \o <<"\n  ">>
       \o Elem("fileAnalyses",
               FileXml("a.ts", "A", CommentXml("12", "B") \o CommentXml("abc", "B2"))
               \o FileXml("b.ts", "A2", CommentXml("7", "B3")))
       \o <<"\n  ">>
       \o Elem("overallSuggestions",
               Elem("suggestion", <<"X">>) \o Elem("suggestion", <<"Y">>))
       \o <<"\n">>)

\* ------------------------------------------------------------------
\* analyzeCode: the prompt
\* ------------------------------------------------------------------

\* the XML format the prompt ends with, token by token
Skeleton ==
  <<Open("review"), "\n  ">>
  \o Elem("summary", <<"High-level overview of changes">>)
  \o <<"\n  ", Open("fileAnalyses"), "\n    ", Open("file"), "\n      ">>
  \o Elem("path", <<"file path">>) \o <<"\n      ">>
  \o Elem("analysis", <<"Detailed analysis of changes">>) \o <<"\n      ">>
  \o <<Open("suggestedComments"), "\n        ", Open("comment"), "\n          ">>
  \o Elem("line", <<"line_number">>) \o <<"\n          ">>
  \o Elem("body", <<"Specific comment or suggestion">>)
  \o <<"\n        ", Close("comment"), "\n      ", Close("suggestedComments"),
       "\n    ", Close("file"), "\n  ", Close("fileAnalyses"), "\n  ">>
  \o <<Open("overallSuggestions"), "\n    ">>
  \o Elem("suggestion", <<"First suggestion for improvement">>) \o <<"\n    ">>
  \o Elem("suggestion", <<"Second suggestion for improvement">>)
  \o <<"\n  ", Close("overallSuggestions"), "\n", Close("review")>>

PromptIntro ==
  "You are an expert code reviewer. Analyze these pull request changes and provide detailed feedback:\n\nContext:\nPR Title: "

CommitsHeader == "\nCommit Messages: \n"

FilesHeader == "\n\nChanged Files:\n"

FormatHeader == "\n\nProvide your review in the following XML format:\n"

Placeholder == "N/A"

CommitLine(msg) == <<"- ", msg>>

\* file.content || "N/A": undefined and the empty string are both falsy
ContentOrPlaceholder(c) == IF c = Undefined \/ c = "" THEN Placeholder ELSE c

\* the section of one changed file
PromptFileSection(file) ==
  <<"\nFile: ", file.filename, "\nStatus: ", file.status, "\nDiff:\n", file.patch,
    "\n\nCurrent Content:\n", ContentOrPlaceholder(file.content), "\n">>

\* the prompt, as the sequence of its pieces
BuildPrompt(title, files, msgs) ==
  <<PromptIntro, title, CommitsHeader>>
  \o Join([i \in 1..Len(msgs) |-> CommitLine(msgs[i])], "\n")
  \o <<FilesHeader>>
  \o Join([i \in 1..Len(files) |-> PromptFileSection(files[i])], "\n---\n")
  \o <<FormatHeader>>
  \o Skeleton

\* payload.pull_request.title of each delivery
TitleOf(r) == IF r = "r1" THEN "Fix the parser" ELSE "Add a cache"

\* the values a reply puts in the place of the texts of the format
FillValue(t) ==
  CASE t = "file path" -> "a.ts"
    [] t = "line_number" -> "12"
    [] t = "High-level overview of changes" -> "S"
    [] OTHER -> t

\* replies that reproduce the format of the prompt: as it stands, and with
\* values filled in
SkeletonReplies ==
  {Skeleton, [i \in 1..Len(Skeleton) |-> FillValue(Skeleton[i])]}

\* a block with two files and three comments, every line a line number
ValidTwoFileBlock ==
  Elem("review",
       SummaryXml
       \o Elem("fileAnalyses",
               FileXml("b.ts", "A", CommentXml("12", "B") \o CommentXml("7", "B2"))
               \o FileXml("a.ts", "A2", CommentXml("7", "B3")))
       \o Elem("overallSuggestions",
               Elem("suggestion", <<"X">>) \o Elem("suggestion", <<"Y">>)))

WellFormedReplies ==
  {OneFileBlock(p, l) : p \in {"a.ts", "nonexistent.ts"}, l \in {"12", "abc", "0"}}
  \cup {OneFileBlock("a.ts", "7px"), OneFileBlock("a.ts", "-3"),
        TwoFileBlock, ValidTwoFileBlock,
        <<"Here is my review:", "\n">> \o OneFileBlock("a.ts", "12") \o <<"\n", "Thanks">>,
        OneFileBlock("a.ts", "12") \o <<"or">> \o OneFileBlock("b.ts", "7"),
        <<"no ", Close("review"), " yet">> \o OneFileBlock("a.ts", "12")}

\* replies without a usable marker pair
MarkerlessReplies ==
  {<<>>,
   <<"The change looks fine.">>,
   <<Open("review")>> \o SummaryXml,
   <<"prose">> \o SummaryXml \o <<Close("review")>>,
   <<Close("review"), "prose", Open("review")>>}

\* marker pair present, content not well-formed XML
MalformedReplies ==
  {<<Open("review"), Open("summary"), "S", Close("fileAnalyses"), Close("review")>>,
   <<Open("review"), Open("summary"), "S", Close("review")>>,
   <<Open("review"), "S", Open("review"), Close("review")>>}

\* well-formed XML between the markers, a field of the block missing
IncompleteReplies ==
  {Elem("review", Elem("fileAnalyses", FileXml("a.ts", "A", CommentXml("12", "B")))
                  \o SuggestionsXml),
   Elem("review", SummaryXml \o SuggestionsXml),
   Elem("review", SummaryXml
                  \o Elem("fileAnalyses", FileXml("a.ts", "A", CommentXml("12", "B")))),
   Elem("review", SummaryXml),
   Elem("review", <<>>),
   Elem("review", Elem("overview", <<"S">>) \o Elem("files", Elem("item", <<"a.ts">>))),
   Elem("review", SummaryXml
                  \o Elem("fileAnalyses",
                          Elem("file", Elem("analysis", <<"A">>)
                                       \o Elem("suggestedComments", CommentXml("12", "B"))))
                  \o SuggestionsXml),
   Elem("review", SummaryXml
                  \o Elem("fileAnalyses",
                          FileXml("a.ts", "A", Elem("comment", Elem("body", <<"B">>))))
                  \o SuggestionsXml)}

\* lists that are present and empty, and a field holding markup
EmptyListReplies ==
  {Elem("review", SummaryXml \o Elem("fileAnalyses", <<>>) \o SuggestionsXml),
   Elem("review", SummaryXml
                  \o Elem("fileAnalyses", FileXml("a.ts", "A", <<>>))
                  \o SuggestionsXml),
   Elem("review", SummaryXml
                  \o Elem("fileAnalyses", FileXml("a.ts", "A", CommentXml("12", "B")))
                  \o Elem("overallSuggestions", <<>>)),
   Elem("review", Elem("summary", Elem("item", <<"S">>))
                  \o Elem("fileAnalyses", FileXml("a.ts", "A", CommentXml("12", "B")))
                  \o SuggestionsXml)}

\* the texts generateText can resolve with
Replies ==
  WellFormedReplies \cup MarkerlessReplies \cup MalformedReplies
  \cup IncompleteReplies \cup EmptyListReplies \cup SkeletonReplies

\* ------------------------------------------------------------------
\* State
\* ------------------------------------------------------------------

VARIABLES
  active,          \* the webhook deliveries that can arrive in this run
  pc,              \* where the handling of each delivery stands
  eventType,       \* its x-github-event header
  payloadAction,   \* its payload.action
  filesRes,        \* the data of listFiles
  fetched,         \* per file: how its getContent call settled
  content,         \* per file: "pending", or what its element of the
                   \* Promise.all array settled to
  changedFiles,    \* the assembled FileChange list
  commitMessages,  \* the messages of listCommits
  prompt,          \* the prompt handed to generateText
  text,            \* the reply of generateText
  xmlResponse,     \* the span sliced out of the reply
  analysis,        \* the CodeAnalysis analyzeCode returned
  sent,            \* the argument objects handed to createReview
  posted,          \* the reviews GitHub accepted
  responses,       \* the HTTP status codes sent for the delivery
  calls,           \* how often each external call was issued
  thrown           \* the step that raised the error the handler caught

vars ==
  <<active, pc, eventType, payloadAction, filesRes, fetched, content,
    changedFiles, commitMessages, prompt, text, xmlResponse, analysis, sent,
    posted, responses, calls, thrown>>

NoCalls ==
  [listFiles |-> 0, getContent |-> <<>>, listCommits |-> 0,
   generateText |-> 0, parse |-> 0, createReview |-> 0]

InitRequests ==
  /\ pc = [r \in AllReqs |-> "idle"]
  /\ eventType = [r \in AllReqs |-> ""]
  /\ payloadAction = [r \in AllReqs |-> ""]
  /\ filesRes = [r \in AllReqs |-> <<>>]
  /\ fetched = [r \in AllReqs |-> <<>>]
  /\ content = [r \in AllReqs |-> <<>>]
  /\ changedFiles = [r \in AllReqs |-> <<>>]
  /\ commitMessages = [r \in AllReqs |-> <<>>]
  /\ prompt = [r \in AllReqs |-> <<>>]
  /\ text = [r \in AllReqs |-> <<>>]
  /\ xmlResponse = [r \in AllReqs |-> <<>>]
  /\ analysis = [r \in AllReqs |-> NoAnalysis]
  /\ sent = [r \in AllReqs |-> <<>>]
  /\ posted = [r \in AllReqs |-> <<>>]
  /\ responses = [r \in AllReqs |-> <<>>]
  /\ calls = [r \in AllReqs |-> NoCalls]
  /\ thrown = [r \in AllReqs |-> "none"]

\* one webhook delivery
Init == active = {"r1"} /\ InitRequests

\* ------------------------------------------------------------------
\* app.post("/webhook") and handlePullRequestOpened, one action per
\* continuation between two awaits
\* ------------------------------------------------------------------

\* a handler that logs the error and answers 200 all the same
CatchAndAnswerOk(r, where) ==
  /\ thrown' = [thrown EXCEPT ![r] = where]
  /\ responses' = [responses EXCEPT ![r] = Append(@, 200)]
  /\ pc' = [pc EXCEPT ![r] = "done"]

\* the catch block of the webhook handler: log, answer 500
Catch(r, where) ==
  /\ thrown' = [thrown EXCEPT ![r] = where]
  /\ responses' = [responses EXCEPT ![r] = Append(@, 500)]
  /\ pc' = [pc EXCEPT ![r] = "done"]

\* a filter that looks at the event header alone
IsPullRequestEvent(h, a) == h = "pull_request"

\* the filter of the webhook handler
IsOpenedPullRequest(h, a) == h = "pull_request" /\ a = "opened"

\* a handler that acknowledges the delivery before it starts the pipeline
ReceiveAndAnswerFirst(r, h, a) ==
  /\ r \in active
  /\ pc[r] = "idle"
  /\ eventType' = [eventType EXCEPT ![r] = h]
  /\ payloadAction' = [payloadAction EXCEPT ![r] = a]
  /\ responses' = [responses EXCEPT ![r] = Append(@, 200)]
  /\ IF IsOpenedPullRequest(h, a)
     THEN /\ pc' = [pc EXCEPT ![r] = "listFiles"]
          /\ calls' = [calls EXCEPT ![r].listFiles = @ + 1]
     ELSE /\ pc' = [pc EXCEPT ![r] = "done"]
          /\ UNCHANGED calls
  /\ UNCHANGED <<active, prompt, filesRes, fetched, content, changedFiles,
                 commitMessages, text, xmlResponse, analysis, sent, posted,
                 thrown>>

\* a delivery arrives; an opened pull request starts the pipeline with the
\* listFiles call, anything else is answered 200 at once
Receive(r, h, a) ==
  /\ r \in active
  /\ pc[r] = "idle"
  /\ eventType' = [eventType EXCEPT ![r] = h]
  /\ payloadAction' = [payloadAction EXCEPT ![r] = a]
  /\ IF IsOpenedPullRequest(h, a)
     THEN /\ pc' = [pc EXCEPT ![r] = "listFiles"]
          /\ calls' = [calls EXCEPT ![r].listFiles = @ + 1]
          /\ UNCHANGED responses
     ELSE /\ pc' = [pc EXCEPT ![r] = "done"]
          /\ responses' = [responses EXCEPT ![r] = Append(@, 200)]
          /\ UNCHANGED calls
  /\ UNCHANGED <<active, prompt, filesRes, fetched, content, changedFiles,
                 commitMessages, text, xmlResponse, analysis, sent, posted,
                 thrown>>

\* the FileChange list Promise.all resolves with
Assemble(files, contents) ==
  [i \in 1..Len(files) |->
     [filename |-> files[i].filename,
      patch |-> files[i].patch,
      status |-> files[i].status,
      content |-> contents[i]]]

\* a handler that keeps the assembled list in one module-level variable
AfterPromiseAllShared(r, files, contents) ==
  /\ changedFiles' = [q \in AllReqs |-> Assemble(files, contents)]
  /\ calls' = [calls EXCEPT ![r].listCommits = @ + 1]
  /\ pc' = [pc EXCEPT ![r] = "listCommits"]

\* the continuation after Promise.all: keep the list, ask for the commits
AfterPromiseAll(r, files, contents) ==
  /\ changedFiles' = [changedFiles EXCEPT ![r] = Assemble(files, contents)]
  /\ calls' = [calls EXCEPT ![r].listCommits = @ + 1]
  /\ pc' = [pc EXCEPT ![r] = "listCommits"]

\* listFiles resolves: one getFileContent call per file is issued at once
ListFilesResolve(r, fl) ==
  /\ pc[r] = "listFiles"
  /\ filesRes' = [filesRes EXCEPT ![r] = [i \in 1..Len(fl) |-> FileEntry(fl[i])]]
  /\ fetched' = [fetched EXCEPT ![r] = [i \in 1..Len(fl) |-> "pending"]]
  /\ content' = [content EXCEPT ![r] = [i \in 1..Len(fl) |-> "pending"]]
  /\ IF fl = <<>>
     THEN AfterPromiseAll(r, <<>>, <<>>)
     ELSE /\ pc' = [pc EXCEPT ![r] = "fetching"]
          /\ calls' = [calls EXCEPT ![r].getContent = [i \in 1..Len(fl) |-> 1]]
          /\ UNCHANGED changedFiles
  /\ UNCHANGED <<active, prompt, eventType, payloadAction, commitMessages, text,
                 xmlResponse, analysis, sent, posted, responses, thrown>>

ListFilesReject(r) ==
  /\ pc[r] = "listFiles"
  /\ Catch(r, "listFiles")
  /\ UNCHANGED <<active, prompt, eventType, payloadAction, filesRes, fetched, content,
                 changedFiles, commitMessages, text, xmlResponse, analysis,
                 sent, posted, calls>>

\* how a getContent call can settle: with data that holds a content field,
\* with data that holds none (a directory), or rejected (404, network)
FetchOutcomes == {"content", "noContentField", "rejected"}

Rejected == "rejected"

\* the callback without its .catch: a failed fetch rejects the element
FetchOutcomeWithoutCatch(outcome, c) == IF outcome = "content" THEN c ELSE Rejected

\* what the element of the Promise.all array settles to: the decoded content;
\* getFileContent throws without a content field and rejects with the call,
\* and .catch(() => undefined) turns both into undefined
FetchOutcome(outcome, c) == IF outcome = "content" THEN c ELSE Undefined

\* a wait that ends with the first element that settles
AnySettled(contents) == \E i \in 1..Len(contents) : contents[i] # "pending"

AllSettled(contents) == \A i \in 1..Len(contents) : contents[i] # "pending"

\* the getContent call of file i settles; a rejected element rejects
\* Promise.all, the last element to settle resolves it
FetchSettle(r, i, outcome) ==
  /\ pc[r] = "fetching"
  /\ i \in 1..Len(content[r])
  /\ content[r][i] = "pending"
  /\ fetched' = [fetched EXCEPT ![r][i] = outcome]
  /\ LET contents == [content[r] EXCEPT ![i] =
                        FetchOutcome(outcome, ContentOf(filesRes[r][i].filename))]
     IN /\ content' = [content EXCEPT ![r] = contents]
        /\ IF contents[i] = Rejected
           THEN /\ Catch(r, "getFileContent")
                /\ UNCHANGED <<changedFiles, calls>>
           ELSE IF AllSettled(contents)
           THEN /\ AfterPromiseAll(r, filesRes[r], contents)
                /\ UNCHANGED <<responses, thrown>>
           ELSE UNCHANGED <<changedFiles, calls, pc, responses, thrown>>
  /\ UNCHANGED <<active, prompt, eventType, payloadAction, filesRes, commitMessages,
                 text, xmlResponse, analysis, sent, posted>>

\* listCommits resolves: analyzeCode builds the prompt and calls generateText
ListCommitsResolve(r, msgs) ==
  /\ pc[r] = "listCommits"
  /\ commitMessages' = [commitMessages EXCEPT ![r] = msgs]
  /\ prompt' = [prompt EXCEPT ![r] = BuildPrompt(TitleOf(r), changedFiles[r], msgs)]
  /\ calls' = [calls EXCEPT ![r].generateText = @ + 1]
  /\ pc' = [pc EXCEPT ![r] = "generateText"]
  /\ UNCHANGED <<active, eventType, payloadAction, filesRes, fetched, content,
                 changedFiles, text, xmlResponse, analysis, sent, posted,
                 responses, thrown>>

ListCommitsReject(r) ==
  /\ pc[r] = "listCommits"
  /\ Catch(r, "listCommits")
  /\ UNCHANGED <<active, prompt, eventType, payloadAction, filesRes, fetched, content,
                 changedFiles, commitMessages, text, xmlResponse, analysis,
                 sent, posted, calls>>

\* generateText resolves: the span is sliced out and handed to the parser
GenerateResolve(r, reply) ==
  /\ pc[r] = "generateText"
  /\ text' = [text EXCEPT ![r] = reply]
  /\ xmlResponse' = [xmlResponse EXCEPT ![r] = ExtractXml(reply)]
  /\ calls' = [calls EXCEPT ![r].parse = @ + 1]
  /\ pc' = [pc EXCEPT ![r] = "parse"]
  /\ UNCHANGED <<active, prompt, eventType, payloadAction, filesRes, fetched, content,
                 changedFiles, commitMessages, analysis, sent, posted,
                 responses, thrown>>

GenerateReject(r) ==
  /\ pc[r] = "generateText"
  /\ Catch(r, "generateText")
  /\ UNCHANGED <<active, prompt, eventType, payloadAction, filesRes, fetched, content,
                 changedFiles, commitMessages, text, xmlResponse, analysis,
                 sent, posted, calls>>

\* the arguments object of createReview
ReviewRequest(a) ==
  [event |-> "COMMENT", comments |-> ReviewComments(a), body |-> ReviewBody(a)]

\* await parseStringPromise(xmlResponse) and the conversion that follows
AnalyzeXml(xml) == AnalyzeResult(parseStringPromise(xml))

\* the parse settles: analyzeCode converts the result and returns, and
\* submitReview builds the review and calls createReview; an error thrown
\* on the way reaches the catch block of the webhook handler
ParseSettle(r) ==
  /\ pc[r] = "parse"
  /\ LET res == AnalyzeXml(xmlResponse[r])
     IN IF res.threw
        THEN /\ Catch(r, "analyzeCode")
             /\ UNCHANGED <<analysis, sent, calls>>
        ELSE /\ analysis' = [analysis EXCEPT ![r] = res.analysis]
             /\ IF SubmitThrows(res.analysis)
                THEN /\ Catch(r, "submitReview")
                     /\ UNCHANGED <<sent, calls>>
                ELSE /\ sent' = [sent EXCEPT ![r] = Append(@, ReviewRequest(res.analysis))]
                     /\ calls' = [calls EXCEPT ![r].createReview = @ + 1]
                     /\ pc' = [pc EXCEPT ![r] = "createReview"]
                     /\ UNCHANGED <<responses, thrown>>
  /\ UNCHANGED <<active, prompt, eventType, payloadAction, filesRes, fetched, content,
                 changedFiles, commitMessages, text, xmlResponse, posted>>

\* createReview resolves: the review is on the pull request; answer 200
CreateReviewResolve(r) ==
  /\ pc[r] = "createReview"
  /\ posted' = [posted EXCEPT ![r] = Append(@, sent[r][Len(sent[r])])]
  /\ responses' = [responses EXCEPT ![r] = Append(@, 200)]
  /\ pc' = [pc EXCEPT ![r] = "done"]
  /\ UNCHANGED <<active, prompt, eventType, payloadAction, filesRes, fetched, content,
                 changedFiles, commitMessages, text, xmlResponse, analysis,
                 sent, calls, thrown>>

\* a handler that issues createReview a second time when it is rejected
CreateReviewRetry(r) ==
  /\ pc[r] = "createReview"
  /\ IF calls[r].createReview = 1
     THEN /\ calls' = [calls EXCEPT ![r].createReview = @ + 1]
          /\ sent' = [sent EXCEPT ![r] = Append(@, @[1])]
          /\ UNCHANGED <<pc, thrown, responses>>
     ELSE /\ Catch(r, "createReview")
          /\ UNCHANGED <<sent, calls>>
  /\ UNCHANGED <<active, prompt, eventType, payloadAction, filesRes, fetched,
                 content, changedFiles, commitMessages, text, xmlResponse,
                 analysis, posted>>

CreateReviewReject(r) ==
  /\ pc[r] = "createReview"
  /\ Catch(r, "createReview")
  /\ UNCHANGED <<active, prompt, eventType, payloadAction, filesRes, fetched, content,
                 changedFiles, commitMessages, text, xmlResponse, analysis,
                 sent, posted, calls>>

Next ==
  \E r \in AllReqs :
    \/ \E h \in EventTypes, a \in PayloadActions : Receive(r, h, a)
    \/ \E fl \in FileLists : ListFilesResolve(r, fl)
    \/ ListFilesReject(r)
    \/ \E i \in 1..MaxFiles, o \in FetchOutcomes : FetchSettle(r, i, o)
    \/ \E msgs \in CommitLists : ListCommitsResolve(r, msgs)
    \/ ListCommitsReject(r)
    \/ \E reply \in Replies : GenerateResolve(r, reply)
    \/ GenerateReject(r)
    \/ ParseSettle(r)
    \/ CreateReviewResolve(r)
    \/ CreateReviewReject(r)

Spec == Init /\ [][Next]_vars

\* ------------------------------------------------------------------
\* Two deliveries for two pull requests, handled interleaved
\* ------------------------------------------------------------------

\* the file list of the pull request of each delivery
FileListOf(r) == IF r = "r1" THEN <<"a.ts">> ELSE <<"c.ts", "b.ts">>

\* the replies of the model in the runs with two deliveries
RepliesOfTwo ==
  {OneFileBlock("a.ts", "12"), ValidTwoFileBlock, <<"The change looks fine.">>}

InitTwo == active = AllReqs /\ InitRequests

NextTwo ==
  \E r \in AllReqs :
    \/ \E a \in PayloadActions : Receive(r, "pull_request", a)
    \/ ListFilesResolve(r, FileListOf(r))
    \/ ListFilesReject(r)
    \/ \E i \in 1..MaxFiles, o \in FetchOutcomes : FetchSettle(r, i, o)
    \/ ListCommitsResolve(r, <<"fix: bug">>)
    \/ ListCommitsReject(r)
    \/ \E reply \in RepliesOfTwo : GenerateResolve(r, reply)
    \/ GenerateReject(r)
    \/ ParseSettle(r)
    \/ CreateReviewResolve(r)
    \/ CreateReviewReject(r)

SpecTwo == InitTwo /\ [][NextTwo]_vars

\* ------------------------------------------------------------------
\* Properties
\* ------------------------------------------------------------------

\* the parse and the conversion of the reply of request r have run
Analyzed(r) == calls[r].parse = 1 /\ pc[r] # "parse"

\* the opening marker is missing, the closing marker is missing, or the
\* closing marker ends before the opening marker starts
MarkersUnusable(t) ==
  \/ IndexOf(t, OpenMarker) = -1
  \/ IndexOf(t, CloseMarker) = -1
  \/ IndexOf(t, CloseMarker) + Len(CloseMarker) <= IndexOf(t, OpenMarker)

NoMarkers(t) == IndexOf(t, OpenMarker) = -1 /\ IndexOf(t, CloseMarker) = -1

\* C1: for a reply whose opening marker is missing, whose closing marker is
\* missing, or whose closing marker ends before the opening marker starts,
\* extraction raises nothing and returns the all-empty block.
C1_ExtractionNeverRaises ==
  \A r \in AllReqs :
    (Analyzed(r) /\ MarkersUnusable(text[r])) =>
      /\ thrown[r] # "analyzeCode"
      /\ analysis[r] = NoAnalysis

\* C2: once the model has returned a reply, whatever its text, the pipeline
\* completes without raising and publishes exactly one review (GitHub
\* accepting the call); for a reply without markers that review has a
\* non-empty summary and no inline comment.
C2_EveryReplyIsPublished ==
  \A r \in AllReqs :
    (Analyzed(r) /\ pc[r] = "done" /\ thrown[r] # "createReview") =>
      /\ thrown[r] = "none"
      /\ Len(posted[r]) = 1
      /\ NoMarkers(text[r]) =>
           /\ posted[r][1].comments = <<>>
           /\ posted[r][1].body[2] # ""

\* C3: when both markers are found and the span between them is not
\* well-formed, the parse failure does not reach the caller of analyzeCode.
C3_ParseFailureIsCaught ==
  \A r \in AllReqs :
    (/\ Analyzed(r)
     /\ ~MarkersUnusable(text[r])
     /\ parseStringPromise(xmlResponse[r]).kind = "error") =>
      thrown[r] # "analyzeCode"

\* the span parses and a required top-level field is absent from it
RequiredFieldAbsent(xml) ==
  /\ parseStringPromise(xml).kind = "ok"
  /\ \E field \in {"summary", "fileAnalyses", "overallSuggestions"} :
       Prop(parseStringPromise(xml).root, field) = <<>>

\* C4: when the span parses and one of the fields summary, fileAnalyses,
\* overallSuggestions is absent, extraction returns the empty block: no
\* exception and no partially filled artifact.
C4_MissingFieldFallsBack ==
  \A r \in AllReqs :
    (Analyzed(r) /\ RequiredFieldAbsent(xmlResponse[r])) =>
      /\ thrown[r] # "analyzeCode"
      /\ analysis[r] = NoAnalysis

\* C5: every inline comment handed to createReview has a line that is a
\* positive integer.
C5_CommentLinesArePositive ==
  \A r \in AllReqs :
    \A k \in 1..Len(sent[r]) :
      \A c \in 1..Len(sent[r][k].comments) :
        /\ sent[r][k].comments[c].line.t = "num"
        /\ sent[r][k].comments[c].line.n > 0

\* the path is the filename of a file of the change set of request r
InChangeSet(r, path) ==
  /\ path.t = "str"
  /\ \E i \in 1..Len(changedFiles[r]) : changedFiles[r][i].filename = path.s

\* C6: every path of the review handed to createReview, of a file section
\* or of an inline comment, is the filename of a file of the change set.
C6_PathsAreInChangeSet ==
  \A r \in AllReqs :
    \A k \in 1..Len(sent[r]) :
      /\ \A c \in 1..Len(sent[r][k].comments) :
           InChangeSet(r, sent[r][k].comments[c].path)
      /\ \A f \in 1..Len(analysis[r].fileAnalyses) :
           InChangeSet(r, analysis[r].fileAnalyses[f].path)

\* every getContent call of request r has settled
FetchesSettled(r) ==
  /\ pc[r] \notin {"idle", "listFiles"}
  /\ thrown[r] # "listFiles"
  /\ IsOpenedPullRequest(eventType[r], payloadAction[r])
  /\ \A i \in 1..Len(fetched[r]) : fetched[r][i] # "pending"

\* C7: whichever content fetches fail, assembly completes: no fetch failure
\* reaches the handler, the assembled list holds every file of the file list
\* in its order, a failed file with absent content and a fetched file with
\* its content, and the handler goes on to the commit list and the model.
C7_AssemblyToleratesFetchFailure ==
  \A r \in AllReqs :
    /\ thrown[r] # "getFileContent"
    /\ FetchesSettled(r) =>
         /\ pc[r] # "fetching"
         /\ calls[r].listCommits = 1
         /\ Len(changedFiles[r]) = Len(filesRes[r])
         /\ \A i \in 1..Len(filesRes[r]) :
              /\ changedFiles[r][i].filename = filesRes[r][i].filename
              /\ changedFiles[r][i].content =
                   IF fetched[r][i] = "content"
                   THEN ContentOf(filesRes[r][i].filename)
                   ELSE Undefined
         /\ (pc[r] # "listCommits" /\ thrown[r] # "listCommits") =>
              calls[r].generateText = 1

C7_Witness ==
  \E r \in AllReqs :
    /\ Len(fetched[r]) = 2
    /\ fetched[r][1] = "rejected"
    /\ fetched[r][2] = "content"
    /\ calls[r].generateText = 1

\* C8: when listFiles, listCommits or generateText fails, nothing is handed
\* to createReview and nothing is posted, the failed call has been issued
\* once, the request is answered 500 and its handling is over.
C8_FatalFailureDropsEvent ==
  \A r \in AllReqs :
    thrown[r] \in {"listFiles", "listCommits", "generateText"} =>
      /\ sent[r] = <<>>
      /\ posted[r] = <<>>
      /\ calls[r][thrown[r]] = 1
      /\ calls[r].createReview = 0
      /\ responses[r] = <<500>>
      /\ pc[r] = "done"

C8_Witness ==
  \E r \in AllReqs :
    /\ thrown[r] = "generateText"
    /\ responses[r] = <<500>>
    /\ Len(changedFiles[r]) > 0

\* C9: a delivery starts the pipeline exactly when its event header is
\* pull_request and its action is opened; any other delivery issues no
\* call, posts nothing and is answered 200.
C9_OnlyOpenedPullRequests ==
  \A r \in AllReqs :
    pc[r] # "idle" =>
      IF eventType[r] = "pull_request" /\ payloadAction[r] = "opened"
      THEN calls[r].listFiles = 1
      ELSE /\ calls[r] = NoCalls
           /\ sent[r] = <<>>
           /\ posted[r] = <<>>
           /\ responses[r] = <<200>>
           /\ pc[r] = "done"

C9_Witness ==
  \E r \in AllReqs :
    /\ eventType[r] = "pull_request"
    /\ payloadAction[r] = "closed"
    /\ responses[r] = <<200>>

RECURSIVE IsSubsequence(_, _)
\* the pieces occur in the body in this order
IsSubsequence(pieces, body) ==
  IF pieces = <<>> THEN TRUE
  ELSE IF body = <<>> THEN FALSE
  ELSE IF pieces[1] = body[1] THEN IsSubsequence(Tail(pieces), Tail(body))
  ELSE IsSubsequence(pieces, Tail(body))

\* every field of the artifact is text
AllText(a) ==
  /\ a.summary.t = "str"
  /\ \A f \in 1..Len(a.fileAnalyses) :
       a.fileAnalyses[f].path.t = "str" /\ a.fileAnalyses[f].analysis.t = "str"
  /\ \A g \in 1..Len(a.overallSuggestions.items) :
       a.overallSuggestions.items[g].t = "str"

\* the summary, each file's path and analysis, the suggestions heading, the
\* suggestions and the footer, in the order C10 states
OrderedPieces(a) ==
  <<a.summary.s>>
  \o FlatMap([f \in 1..Len(a.fileAnalyses) |->
                <<a.fileAnalyses[f].path.s, a.fileAnalyses[f].analysis.s>>])
  \o <<SuggestionsHeader>>
  \o [g \in 1..Len(a.overallSuggestions.items) |-> a.overallSuggestions.items[g].s]
  \o <<BodyFooter>>

\* C10: the body handed to createReview holds, in this order, the summary,
\* per file analysis in list order its path and then its analysis text, the
\* suggestions section with the suggestions in list order, and the footer.
C10_BodyOrder ==
  \A r \in AllReqs :
    \A k \in 1..Len(sent[r]) :
      AllText(analysis[r]) =>
        IsSubsequence(OrderedPieces(analysis[r]), sent[r][k].body)

C10_Witness ==
  \E r \in AllReqs :
    /\ Len(sent[r]) = 1
    /\ Len(analysis[r].fileAnalyses) = 2
    /\ Len(analysis[r].overallSuggestions.items) = 2

\* the character data of the element opened at token i (no child element)
TextAfter(xml, i) == IF IsClose(xml[i + 1]) THEN "" ELSE xml[i + 1]

\* the first token equal to tag after token i
FirstAfter(xml, i, tag) ==
  CHOOSE j \in (i + 1)..Len(xml) :
    xml[j] = tag /\ \A k \in (i + 1)..(j - 1) : xml[k] # tag

\* the last token equal to tag before token i
LastBefore(xml, i, tag) ==
  CHOOSE j \in 1..(i - 1) :
    xml[j] = tag /\ \A k \in (j + 1)..(i - 1) : xml[k] # tag

\* the positions of the tokens equal to tag, in block order
TagPositions(xml, tag) ==
  SelectSeq([i \in 1..Len(xml) |-> i], LAMBDA i : xml[i] = tag)

\* the (path, line, body) texts of the comments of the block, read off the
\* tokens in block order: the path is that of the enclosing file entry
BlockTriples(xml) ==
  LET cp == TagPositions(xml, Open("comment"))
  IN [k \in 1..Len(cp) |->
        [path |-> TextAfter(xml, FirstAfter(xml, LastBefore(xml, cp[k], Open("file")),
                                            Open("path"))),
         line |-> TextAfter(xml, FirstAfter(xml, cp[k], Open("line"))),
         body |-> TextAfter(xml, FirstAfter(xml, cp[k], Open("body")))]]

\* the texts of the elements named n of the block, in block order
BlockTexts(xml, n) ==
  LET ps == TagPositions(xml, Open(n))
  IN [k \in 1..Len(ps) |-> TextAfter(xml, ps[k])]

\* the line texts of the model that are positive integers
PositiveLineTexts == {"12", "7"}

LineNumber(t) == IF t = "12" THEN 12 ELSE 7

Str(t) == [t |-> "str", s |-> t]

Range(seq) == {seq[i] : i \in 1..Len(seq)}

\* the span of request r is a well-formed block whose fields are text, whose
\* file paths are all in the change set and whose lines are positive integers
ValidBlock(r) ==
  LET p == parseStringPromise(xmlResponse[r])
  IN /\ p.kind = "ok"
     /\ ~ConvertThrows(p)
     /\ AllText(Convert(p))
     /\ \A f \in 1..Len(Convert(p).fileAnalyses) :
          \A c \in 1..Len(Convert(p).fileAnalyses[f].suggestedComments) :
            Convert(p).fileAnalyses[f].suggestedComments[c].body.t = "str"
     /\ \A path \in Range(BlockTexts(xmlResponse[r], "path")) :
          \E i \in 1..Len(changedFiles[r]) : changedFiles[r][i].filename = path
     /\ \A line \in Range(BlockTexts(xmlResponse[r], "line")) :
          line \in PositiveLineTexts

\* C11: for a reply holding a well-formed block whose paths are all in the
\* change set and whose lines are all positive integers, the review handed
\* to createReview, and the review posted, has the summary and every
\* suggestion of the block in its body, and its inline comments are the
\* (path, line, body) triples of the comments of the block in block order,
\* each with the path of its file entry and its body text unchanged.
C11_ValidBlockIsPublishedAsIs ==
  \A r \in AllReqs :
    /\ \A k \in 1..Len(sent[r]) :
         ValidBlock(r) =>
           LET triples == BlockTriples(xmlResponse[r])
           IN /\ Len(sent[r][k].comments) = Len(triples)
              /\ \A c \in 1..Len(triples) :
                   /\ sent[r][k].comments[c].path = Str(triples[c].path)
                   /\ sent[r][k].comments[c].line = Num(LineNumber(triples[c].line))
                   /\ sent[r][k].comments[c].body = Str(triples[c].body)
              /\ Range(BlockTexts(xmlResponse[r], "summary")) \subseteq Range(sent[r][k].body)
              /\ Range(BlockTexts(xmlResponse[r], "suggestion")) \subseteq Range(sent[r][k].body)
    /\ \A k \in 1..Len(posted[r]) : posted[r][k] = sent[r][k]

C11_Witness ==
  \E r \in AllReqs :
    /\ Len(posted[r]) = 1
    /\ ValidBlock(r)
    /\ Len(posted[r][1].comments) = 3
    /\ posted[r][1].comments[1].path = Str("b.ts")
    /\ posted[r][1].comments[3].path = Str("a.ts")

\* a list element of the block is present and holds no entry
HasEmptyList(xml) ==
  \E n \in {"fileAnalyses", "suggestedComments", "overallSuggestions"} :
    \E i \in 1..(Len(xml) - 1) : xml[i] = Open(n) /\ xml[i + 1] = Close(n)

\* C12: a block whose file list, comment list or suggestion list is present
\* and empty is no failure: producing the artifact and rendering it raise
\* nothing, and the fields of the artifact are defined.
C12_EmptyListIsNotAFailure ==
  \A r \in AllReqs :
    (/\ Analyzed(r)
     /\ parseStringPromise(xmlResponse[r]).kind = "ok"
     /\ ~RequiredFieldAbsent(xmlResponse[r])
     /\ HasEmptyList(xmlResponse[r])) =>
      /\ thrown[r] \notin {"analyzeCode", "submitReview"}
      /\ analysis[r].overallSuggestions.defined

\* the reply holds an opening marker and a closing marker after it
HasMatchedSpan(t) ==
  \E i, j \in 1..Len(t) : i < j /\ t[i] = OpenMarker /\ t[j] = CloseMarker

\* the tokens from the first opening marker to the first closing marker
\* that lies after it
MatchedSpan(t) ==
  LET i == FirstAfter(t, 0, OpenMarker)
  IN SubSeq(t, i, FirstAfter(t, i, CloseMarker))

\* C13: the span handed to the parser runs from the first opening marker to
\* the end of the first closing marker after that opening marker, also when
\* markers occur more than once or a closing marker comes first.
C13_FirstMatchedSpan ==
  \A r \in AllReqs :
    (calls[r].parse = 1 /\ HasMatchedSpan(text[r])) =>
      xmlResponse[r] = MatchedSpan(text[r])

\* the file list with, per file, what its content fetch gave, in list order
ExpectedFiles(r) ==
  [i \in 1..Len(filesRes[r]) |->
     [filename |-> filesRes[r][i].filename,
      patch |-> filesRes[r][i].patch,
      status |-> filesRes[r][i].status,
      content |-> IF fetched[r][i] = "content"
                  THEN ContentOf(filesRes[r][i].filename)
                  ELSE Undefined]]

\* C14: while a content fetch of a delivery is pending, no prompt is built
\* and the model is not invoked; when the model is invoked every fetch has
\* settled, and the prompt is the one built from the file list in list
\* order with what each fetch gave, whatever order the fetches settled in.
C14_ModelAfterAllFetches ==
  \A r \in AllReqs :
    /\ (\E i \in 1..Len(fetched[r]) : fetched[r][i] = "pending") =>
         /\ calls[r].generateText = 0
         /\ prompt[r] = <<>>
    /\ calls[r].generateText = 1 =>
         /\ \A i \in 1..Len(fetched[r]) : fetched[r][i] # "pending"
         /\ prompt[r] = BuildPrompt(TitleOf(r), ExpectedFiles(r), commitMessages[r])

C14_Witness ==
  \E r \in AllReqs :
    /\ calls[r].generateText = 1
    /\ fetched[r] = <<"content", "noContentField">>
    /\ prompt[r] # <<>>

\* C15: the steps of a delivery run in the order context assembly, prompt
\* building, model invocation, extraction, publication: a step has run only
\* when the steps before it have, and no call is issued twice (the file
\* list, each file's content, the commit list, the model, the parser and
\* the write interface at most once).
C15_FixedStepOrder ==
  \A r \in AllReqs :
    /\ calls[r].listFiles <= 1
    /\ \A i \in 1..Len(calls[r].getContent) : calls[r].getContent[i] = 1
    /\ calls[r].listCommits <= 1
    /\ calls[r].generateText <= 1
    /\ calls[r].parse <= 1
    /\ calls[r].createReview <= 1
    /\ Len(sent[r]) = calls[r].createReview
    /\ Len(posted[r]) <= Len(sent[r])
    /\ calls[r].getContent # <<>> =>
         /\ calls[r].listFiles = 1
         /\ Len(calls[r].getContent) = Len(filesRes[r])
    /\ calls[r].listCommits = 1 =>
         /\ calls[r].listFiles = 1
         /\ Len(calls[r].getContent) = Len(filesRes[r])
         /\ \A i \in 1..Len(fetched[r]) : fetched[r][i] # "pending"
    /\ prompt[r] # <<>> => calls[r].listCommits = 1 /\ pc[r] # "listCommits"
    /\ calls[r].generateText = 1 => prompt[r] # <<>>
    /\ calls[r].parse = 1 => calls[r].generateText = 1 /\ pc[r] # "generateText"
    /\ calls[r].createReview = 1 => Analyzed(r)
    /\ posted[r] # <<>> => pc[r] = "done"

C15_Witness ==
  \E r \in AllReqs :
    /\ pc[r] = "done"
    /\ Len(posted[r]) = 1
    /\ calls[r] = [listFiles |-> 1, getContent |-> <<1, 1>>, listCommits |-> 1,
                   generateText |-> 1, parse |-> 1, createReview |-> 1]

\* everything the handling of delivery r holds
StateOf(r) ==
  <<pc[r], eventType[r], payloadAction[r], filesRes[r], fetched[r], content[r],
    changedFiles[r], commitMessages[r], prompt[r], text[r], xmlResponse[r],
    analysis[r], sent[r], posted[r], responses[r], calls[r], thrown[r]>>

\* what delivery r has produced so far is what its own pull request, its
\* own fetches and its own reply give
OwnResults(r) ==
  /\ changedFiles[r] =
       IF calls[r].listCommits = 1 THEN ExpectedFiles(r) ELSE <<>>
  /\ prompt[r] =
       IF calls[r].generateText = 1
       THEN BuildPrompt(TitleOf(r), ExpectedFiles(r), commitMessages[r])
       ELSE <<>>
  /\ xmlResponse[r] = IF calls[r].parse = 1 THEN ExtractXml(text[r]) ELSE <<>>
  /\ Analyzed(r) =>
       LET res == AnalyzeXml(ExtractXml(text[r]))
       IN IF res.threw THEN thrown[r] = "analyzeCode" /\ sent[r] = <<>>
          ELSE IF SubmitThrows(res.analysis)
          THEN thrown[r] = "submitReview" /\ sent[r] = <<>>
          ELSE /\ sent[r] = <<ReviewRequest(res.analysis)>>
               /\ thrown[r] \in {"none", "createReview"}
  /\ posted[r] = IF pc[r] = "done" /\ thrown[r] = "none" THEN sent[r] ELSE <<>>

\* C16: with two deliveries handled interleaved, each delivery's assembled
\* files, prompt, outcome and review are at every moment what its own
\* inputs give, whatever the other delivery has done or failed at, and a
\* step of one delivery changes nothing of the other.
C16_InterleavedReviewsAreIndependent ==
  /\ [](\A r \in AllReqs : OwnResults(r))
  /\ [][\A r \in AllReqs : \A q \in AllReqs \ {r} :
          StateOf(r)' # StateOf(r) => StateOf(q)' = StateOf(q)]_vars

C16_Witness ==
  /\ thrown["r1"] = "generateText"
  /\ Len(posted["r2"]) = 1
  /\ Len(posted["r2"][1].comments) = 3
  /\ Len(changedFiles["r1"]) = 1
  /\ Len(changedFiles["r2"]) = 2

\* the pieces of the prompt that follow the heading of the file sections:
\* nine pieces per file and one separator between two files
SectionStart(p, i) == FirstAfter(p, 0, FilesHeader) + (i - 1) * 10

\* C17: the prompt holds, per file of the change set in list order, its
\* path, its change kind, its diff text and its content; the placeholder
\* stands for the content exactly when the content is absent, and a content
\* that is present, the empty content included, is emitted as it is.
C17_PromptHoldsEveryFile ==
  \A r \in AllReqs :
    prompt[r] # <<>> =>
      \A i \in 1..Len(changedFiles[r]) :
        LET at == SectionStart(prompt[r], i)
            file == changedFiles[r][i]
        IN /\ prompt[r][at + 2] = file.filename
           /\ prompt[r][at + 4] = file.status
           /\ prompt[r][at + 6] = file.patch
           /\ prompt[r][at + 8] =
                IF file.content = Undefined THEN Placeholder ELSE file.content

\* the XML format the prompt ends with
FormatOf(p) == SubSeq(p, FirstAfter(p, 0, FormatHeader) + 1, Len(p))

\* the replies that reproduce the format of the prompt p: as it stands, and
\* with values in the place of its texts
Reproductions(p) ==
  {FormatOf(p), [i \in 1..Len(FormatOf(p)) |-> FillValue(FormatOf(p)[i])]}

ExpectedLine(t) == IF t \in PositiveLineTexts THEN Num(LineNumber(t)) ELSE NaN

\* the artifact with the values of a block of the shape of the format: one
\* file entry with its comments, read off the tokens under the field names
\* of the format
FormatArtifact(xml) ==
  [summary |-> Str(BlockTexts(xml, "summary")[1]),
   fileAnalyses |->
     <<[path |-> Str(BlockTexts(xml, "path")[1]),
        analysis |-> Str(BlockTexts(xml, "analysis")[1]),
        suggestedComments |->
          [k \in 1..Len(BlockTriples(xml)) |->
             [line |-> ExpectedLine(BlockTriples(xml)[k].line),
              body |-> Str(BlockTriples(xml)[k].body)]]]>>,
   overallSuggestions |->
     [defined |-> TRUE,
      items |-> [k \in 1..Len(BlockTexts(xml, "suggestion")) |->
                   Str(BlockTexts(xml, "suggestion")[k])]]]

\* C18: the format of the prompt starts with the opening marker and ends
\* with the closing marker the extractor searches for, and a reply that
\* reproduces the format, with or without values filled in, is extracted
\* without failure: every field is found under the name and at the nesting
\* the format gives it.
C18_PromptFormatIsExtracted ==
  \A r \in AllReqs :
    /\ prompt[r] # <<>> =>
         /\ FormatOf(prompt[r])[1] = OpenMarker
         /\ FormatOf(prompt[r])[Len(FormatOf(prompt[r]))] = CloseMarker
    /\ (Analyzed(r) /\ text[r] \in Reproductions(prompt[r])) =>
         /\ xmlResponse[r] = text[r]
         /\ thrown[r] \notin {"analyzeCode", "submitReview"}
         /\ analysis[r] = FormatArtifact(text[r])

C18_Witness ==
  \E r \in AllReqs :
    /\ Len(posted[r]) = 1
    /\ text[r] \in Reproductions(prompt[r])
    /\ text[r] # FormatOf(prompt[r])
    /\ posted[r][1].comments = <<[path |-> Str("a.ts"), line |-> Num(12),
                                  body |-> Str("Specific comment or suggestion")]>>

\* C19: a delivery is answered once, when its handling is over and not
\* before: 200 when the event was ignored or the review was posted without
\* an error, 500 when a step of the pipeline raised; an opened pull request
\* whose review was not posted is never answered 200, and while the model
\* call is pending no answer is sent and nothing is handed to createReview.
C19_OneResponsePerDelivery ==
  \A r \in AllReqs :
    /\ Len(responses[r]) <= 1
    /\ responses[r] # <<>> <=> pc[r] = "done"
    /\ responses[r] = <<200>> =>
         /\ thrown[r] = "none"
         /\ IF eventType[r] = "pull_request" /\ payloadAction[r] = "opened"
            THEN Len(posted[r]) = 1 /\ calls[r].createReview = 1
            ELSE calls[r] = NoCalls
    /\ responses[r] = <<500>> <=> thrown[r] # "none"
    /\ responses[r] # <<>> => responses[r][1] \in {200, 500}
    /\ pc[r] = "generateText" =>
         responses[r] = <<>> /\ sent[r] = <<>> /\ posted[r] = <<>>

C19_Witness ==
  \E r \in AllReqs :
    /\ thrown[r] = "createReview"
    /\ responses[r] = <<500>>
    /\ Len(sent[r]) = 1
    /\ posted[r] = <<>>

====
